---- MODULE Spec2Model ----
(***************************************************************************)
(* Concurrent building blocks of the cs431 homework crate:                 *)
(*   - list_set.rs        : lock-coupling ordered set                      *)
(*   - hazard_pointer/    : hazard registry, shields and retired set       *)
(*   - hello_server/cache : memoizing cache                                *)
(*   - hello_server/thread_pool : worker pool with a job counter           *)
(* Each component has its own specification over the shared variable       *)
(* tuple; the variables of the other components stay at their initial      *)
(* value.                                                                  *)
(***************************************************************************)
EXTENDS Integers, Sequences, FiniteSets, TLC

\* ------------------------------------------------------------------ bounds
NumListThreads == 2     \* threads operating on the ordered set
MaxKey == 2             \* keys are 1..MaxKey
NumReaders == 1         \* threads that own a Shield
MaxAddr == 2            \* object addresses are 1..MaxAddr
NumShields == 2         \* shields created and dropped in any interleaving
NumRecycled == 3        \* shields of the slot recycling test
NumCallers == 2         \* threads calling Cache::get_or_insert_with
MaxCacheKey == 2        \* cache keys are 1..MaxCacheKey
NumWorkers == 2         \* size of the ThreadPool
NumClients == 1         \* threads using the pool; client 1 owns it
MaxJobs == 2            \* jobs submitted over the pool's life

\* ------------------------------------------------------------------ program constants
THRESHOLD == 64         \* RetiredSet::THRESHOLD

\* ------------------------------------------------------------------ state
VARIABLES
    \* list_set.rs
    slot,        \* slot[0] = OrderedListSet.head, slot[n] = Node n's next; 0 is null
    ldata,       \* ldata[n] = Node n's data (0 when the address is not allocated)
    lalloc,      \* set of node addresses currently allocated (Box::into_raw .. Box::from_raw)
    lockOwner,   \* lockOwner[s] = thread holding the Mutex of slot s, 0 when unlocked
    lpc,         \* program position of each list thread
    lop,         \* operation each list thread is running
    lkey,        \* its key argument
    lcur,        \* slot whose guard is the thread's Cursor
    lnode,       \* curr_node of the thread (find / remove)
    lnext,       \* next_node read by remove
    lres,        \* value returned by the operation
    labs,        \* history: result of the abstract set operation at the linearization step
    absSet,      \* history: abstract set, updated at the pointer-slot writes
    refSet,      \* history: reference set of the sequential run, updated at invocation
    refRes,      \* history: result of the reference set for the running sequential call
    \* hazard_pointer/hazard.rs, retire.rs
    hhead,       \* HazardBag.head (0 is null)
    hnext,       \* HazardSlot.next of each allocated slot
    hactive,     \* HazardSlot.active
    hhazard,     \* HazardSlot.hazard (0: no protection)
    src,         \* the shared AtomicPtr the readers protect from
    heap,        \* object addresses currently allocated (not yet passed to free)
    rpc,         \* program position of each reader
    rnode,       \* node of try_acquire_inactive / past_head of acquire_slot
    rslot,       \* Shield.slot of each reader (0: no shield)
    rptr,        \* pointer of Shield::protect / *pointer of try_protect
    rheld,       \* history: address protect returned and the slot has published ever since
    wpc,         \* program position of the reclaimer
    wold,        \* address the reclaimer unlinked and is about to retire
    retired,     \* RetiredSet.inner (the addresses; every deleter is free::<T>)
    hash_set,    \* all_hazards: the set being built / hazard_bag of collect
    cnode,       \* all_hazards: node
    ci,          \* collect: number of entries of inner already visited
    new_inner,   \* collect: new_inner_vec
    ccover,      \* history: <<slot, a>> published at the start of the running collect and ever since
    cfreed,      \* history: addresses the running collect has freed
    cstart,      \* history: RetiredSet.inner when the running collect started
    cseen,       \* history: entries of cstart published in an active slot at some time of the running collect
    \* hello_server/cache.rs
    cmap,        \* Cache.inner: the HashMap, per key absent / pending (Arc(None)) / ready (Arc(Some(v)))
    rw_readers,  \* threads holding a read guard of Cache.inner
    rw_writer,   \* thread holding the write guard of Cache.inner, 0 when none
    cpc,         \* program position of each caller of get_or_insert_with
    ckey,        \* key argument of the call
    cresult,     \* result of f(key.clone()) / the value the call returns
    barrier,     \* callers' producers that have arrived at the barrier (barrier scenario)
    finvoked,    \* history: per key, the callers whose producer f has been invoked
    \* hello_server/thread_pool.rs
    job_count,   \* ThreadPoolInner.job_count
    count_lock,  \* client holding the MutexGuard of job_count in wait_empty, 0 when none
    empty_condvar, \* ThreadPoolInner.empty_condvar: the threads blocked in its wait
    queue,       \* jobs in the channel
    chan_open,   \* ThreadPool.job_sender is Some (the channel is not closed)
    wstate,      \* position of each worker thread
    wjob,        \* job the worker is running
    jstate,      \* history: how far each job has got
    njobs,       \* history: number of jobs passed to execute
    mpc,         \* position of each client thread
    mjob,        \* job of the client's running execute
    joinSeen,    \* history: jobs whose execute had returned when the client's join began
    joinOpen,    \* history: those of joinSeen that had not finished when the join began
    dropIdx,     \* Drop for ThreadPool: index of the worker being joined
    \* hazard.rs, tests::recycle_slots
    phase,       \* "create" (the first shields), "release" (drop(shields)), "recreate"
    old_slots,   \* old_slots of the test: the slots of the first shields
    \* retire.rs, Drop for RetiredSet
    in_drop,     \* the reclaimer is inside (or has left) Drop for RetiredSet: collect returns to its loop
    dstart,      \* history: the addresses in RetiredSet.inner when the drop began
    dpasses,     \* history: collect passes the running drop has begun, counted up to two
    \* retire.rs, the deleters
    inner_free,  \* RetiredSet.inner, second components: the deleter paired with each address
    new_inner_free \* collect: new_inner_vec, second components

listVars == <<slot, ldata, lalloc, lockOwner, lpc, lop, lkey, lcur, lnode, lnext, lres, labs,
              absSet, refSet, refRes>>

hazVars == <<hhead, hnext, hactive, hhazard, src, heap, rpc, rnode, rslot, rptr, rheld,
             wpc, wold, retired, hash_set, cnode, ci, new_inner, ccover, cfreed, cstart, cseen>>

cacheVars == <<cmap, rw_readers, rw_writer, cpc, ckey, cresult, barrier, finvoked>>

poolVars == <<job_count, count_lock, empty_condvar, queue, chan_open, wstate, wjob, jstate, njobs, mpc, mjob,
              joinSeen, joinOpen, dropIdx>>

recycleVars == <<phase, old_slots>>

dropVars == <<in_drop, dstart, dpasses>>

deleterVars == <<inner_free, new_inner_free>>

vars == <<listVars, hazVars, cacheVars, poolVars, recycleVars, dropVars, deleterVars>>

\* What the actions of one component leave unchanged.
\* (The phase of the recycling test belongs to the test's thread: no operation
\* of the components themselves changes it; nor does any step of a shield, of
\* retire or of collect begin or end the drop of the retired set. The
\* deleters are touched by retire and collect alone, which leave notReclaim
\* unchanged.)
notList == <<hazVars, cacheVars, poolVars, recycleVars, dropVars, deleterVars>>
notReclaim == <<listVars, cacheVars, poolVars, recycleVars, dropVars>>
notHaz == <<notReclaim, deleterVars>>
notCache == <<listVars, hazVars, poolVars, recycleVars, dropVars, deleterVars>>
notPool == <<listVars, hazVars, cacheVars, recycleVars, dropVars, deleterVars>>

\* ================================================================== list_set.rs

Keys == 1..MaxKey
LThreads == 1..NumListThreads
\* Node addresses: an insert allocates only when its key is absent, so at most
\* MaxKey nodes are live at once.
Nodes == 1..MaxKey
Slots == 0..MaxKey
NoRes == [ok |-> FALSE, val |-> -1]
Res(ok, val) == [ok |-> ok, val |-> val]
Range(q) == {q[i] : i \in 1..Len(q)}

\* Mutant: a lock that never excludes anybody.
CanLockAlways(s) == TRUE

\* Mutex::lock succeeds only on an unlocked mutex.
CanLock(s) == lockOwner[s] = 0

\* Mutant: find does not stop at the first greater value.
FindCaseUnordered(curr_node, key) ==
    IF curr_node = 0 THEN "false"
    ELSE IF ldata[curr_node] = key THEN "true"
    ELSE "next"

\* One iteration of the loop of Cursor::find on curr_node:
\* "false" / "true" are the two returns, "next" advances the cursor.
FindCase(curr_node, key) ==
    IF curr_node = 0 \/ ldata[curr_node] > key THEN "false"
    ELSE IF ldata[curr_node] = key THEN "true"
    ELSE "next"

\* Mutant: insert splices a node even when the key was found.
AfterFindAlwaysInsert(op, found) ==
    CASE op = "contains" -> "ret"
      [] op = "insert"   -> "insert"
      [] op = "remove"   -> IF found THEN "removeLock" ELSE "ret"

\* Position after Cursor::find returned `found`, per calling operation.
AfterFind(op, found) ==
    CASE op = "contains" -> "ret"
      [] op = "insert"   -> IF found THEN "ret" ELSE "insert"
      [] op = "remove"   -> IF found THEN "removeLock" ELSE "ret"

\* Value the operation returns right after find when it does not write.
FindResult(op, found, key) ==
    CASE op = "contains" -> Res(found, 0)
      [] op = "insert"   -> IF found THEN Res(FALSE, key) ELSE NoRes
      [] op = "remove"   -> IF found THEN NoRes ELSE Res(FALSE, 0)

\* Values reachable from head, in list order.
RECURSIVE Walk(_, _)
Walk(n, fuel) ==
    IF n = 0 \/ fuel = 0 THEN <<>> ELSE <<ldata[n]>> \o Walk(slot[n], fuel - 1)

ListSeq == Walk(slot[0], MaxKey + 1)
ListValues == {ListSeq[i] : i \in 1..Len(ListSeq)}

\* The sequential set the operations are compared with.
AbsResult(op, k, S) ==
    CASE op = "contains" -> Res(k \in S, 0)
      [] op = "insert"   -> IF k \in S THEN Res(FALSE, k) ELSE Res(TRUE, 0)
      [] op = "remove"   -> IF k \in S THEN Res(TRUE, k) ELSE Res(FALSE, 0)

AbsNext(op, k, S) ==
    CASE op = "contains" -> S
      [] op = "insert"   -> S \cup {k}
      [] op = "remove"   -> S \ {k}

ListInit ==
    /\ slot = [s \in Slots |-> 0]
    /\ ldata = [n \in Nodes |-> 0]
    /\ lalloc = {}
    /\ lockOwner = [s \in Slots |-> 0]
    /\ lpc = [t \in LThreads |-> "idle"]
    /\ lop = [t \in LThreads |-> "none"]
    /\ lkey = [t \in LThreads |-> 0]
    /\ lcur = [t \in LThreads |-> 0]
    /\ lnode = [t \in LThreads |-> 0]
    /\ lnext = [t \in LThreads |-> 0]
    /\ lres = [t \in LThreads |-> NoRes]
    /\ labs = [t \in LThreads |-> NoRes]
    /\ absSet = {}
    /\ refSet = {}
    /\ refRes = NoRes

\* contains / insert / remove begin: Cursor(self.head.lock().unwrap()).
LockHead(t, op, k) ==
    /\ lpc[t] = "idle"
    /\ CanLock(0)
    /\ lockOwner' = [lockOwner EXCEPT ![0] = t]
    /\ lpc' = [lpc EXCEPT ![t] = "find"]
    /\ lop' = [lop EXCEPT ![t] = op]
    /\ lkey' = [lkey EXCEPT ![t] = k]
    /\ lcur' = [lcur EXCEPT ![t] = 0]
    /\ lres' = [lres EXCEPT ![t] = NoRes]
    /\ labs' = [labs EXCEPT ![t] = NoRes]
    /\ UNCHANGED <<slot, ldata, lalloc, lnode, lnext, absSet, notList>>

LStart(t) ==
    \E op \in {"contains", "insert", "remove"}, k \in Keys :
        LockHead(t, op, k) /\ UNCHANGED <<refSet, refRes>>

\* A call made while no other call is running (a sequential history); the
\* reference set performs the same call.
LStartSeq(t) ==
    /\ \A u \in LThreads : lpc[u] = "idle"
    /\ \E op \in {"contains", "insert", "remove"}, k \in Keys :
          /\ LockHead(t, op, k)
          /\ refRes' = AbsResult(op, k, refSet)
          /\ refSet' = AbsNext(op, k, refSet)

\* One iteration of Cursor::find under the cursor's guard. An operation that
\* does not write takes effect here.
LFind(t) ==
    /\ lpc[t] = "find"
    /\ LET curr_node == slot[lcur[t]]
           c == FindCase(curr_node, lkey[t])
       IN IF c = "next"
          THEN /\ lpc' = [lpc EXCEPT ![t] = "advance"]
               /\ lnode' = [lnode EXCEPT ![t] = curr_node]
               /\ UNCHANGED <<lres, labs>>
          ELSE /\ lpc' = [lpc EXCEPT ![t] = AfterFind(lop[t], c = "true")]
               /\ lnode' = [lnode EXCEPT ![t] = curr_node]
               /\ lres' = [lres EXCEPT ![t] = FindResult(lop[t], c = "true", lkey[t])]
               /\ labs' = [labs EXCEPT ![t] =
                              IF AfterFind(lop[t], c = "true") = "ret"
                              THEN AbsResult(lop[t], lkey[t], absSet) ELSE NoRes]
    /\ UNCHANGED <<slot, ldata, lalloc, lockOwner, lop, lkey, lcur, lnext, absSet, refSet, refRes, notList>>

\* Mutant: find drops the cursor's guard before it locks the next slot.
LAdvanceLockReleasesFirst(t) ==
    /\ lpc[t] = "advance"
    /\ lockOwner' = [lockOwner EXCEPT ![lcur[t]] = 0]
    /\ lpc' = [lpc EXCEPT ![t] = "handoff"]
    /\ UNCHANGED <<slot, ldata, lalloc, lop, lkey, lcur, lnode, lnext, lres, labs, absSet, refSet, refRes, notList>>

\* find: let next_node = (*curr_node).next.lock().unwrap();
LAdvanceLock(t) ==
    /\ lpc[t] = "advance"
    /\ CanLock(lnode[t])
    /\ lockOwner' = [lockOwner EXCEPT ![lnode[t]] = t]
    /\ lpc' = [lpc EXCEPT ![t] = "handoff"]
    /\ UNCHANGED <<slot, ldata, lalloc, lop, lkey, lcur, lnode, lnext, lres, labs, absSet, refSet, refRes, notList>>

\* Mutant: the hand-over of find leaks the old guard instead of dropping it.
LAdvanceReleaseLeaks(t) ==
    /\ lpc[t] = "handoff"
    /\ lcur' = [lcur EXCEPT ![t] = lnode[t]]
    /\ lnode' = [lnode EXCEPT ![t] = 0]
    /\ lpc' = [lpc EXCEPT ![t] = "find"]
    /\ UNCHANGED <<slot, ldata, lalloc, lockOwner, lop, lkey, lnext, lres, labs, absSet, refSet, refRes, notList>>

\* find: *self = Cursor(next_node); the old guard is dropped by the assignment.
LAdvanceRelease(t) ==
    /\ lpc[t] = "handoff"
    /\ lockOwner' = [lockOwner EXCEPT ![lcur[t]] = 0]
    /\ lcur' = [lcur EXCEPT ![t] = lnode[t]]
    /\ lnode' = [lnode EXCEPT ![t] = 0]
    /\ lpc' = [lpc EXCEPT ![t] = "find"]
    /\ UNCHANGED <<slot, ldata, lalloc, lop, lkey, lnext, lres, labs, absSet, refSet, refRes, notList>>

\* insert: new_node = Node::new(key, *find_cursor.0); *find_cursor.0 = new_node.
LInsertWrite(t) ==
    /\ lpc[t] = "insert"
    /\ \E new_node \in Nodes \ lalloc :
          /\ ldata' = [ldata EXCEPT ![new_node] = lkey[t]]
          /\ slot' = [slot EXCEPT ![new_node] = slot[lcur[t]], ![lcur[t]] = new_node]
          /\ lalloc' = lalloc \cup {new_node}
    /\ lres' = [lres EXCEPT ![t] = Res(TRUE, 0)]
    /\ labs' = [labs EXCEPT ![t] = AbsResult("insert", lkey[t], absSet)]
    /\ absSet' = AbsNext("insert", lkey[t], absSet)
    /\ lpc' = [lpc EXCEPT ![t] = "ret"]
    /\ UNCHANGED <<lockOwner, lop, lkey, lcur, lnode, lnext, refSet, refRes, notList>>

\* remove: let next_node = *(*curr_node).next.lock().unwrap(); the temporary
\* guard is dropped at the end of the statement.
LRemoveLock(t) ==
    /\ lpc[t] = "removeLock"
    /\ CanLock(lnode[t])
    /\ lnext' = [lnext EXCEPT ![t] = slot[lnode[t]]]
    /\ lpc' = [lpc EXCEPT ![t] = "removeWrite"]
    /\ UNCHANGED <<slot, ldata, lalloc, lockOwner, lop, lkey, lcur, lnode, lres, labs, absSet, refSet, refRes, notList>>

\* remove: *cursor.0 = next_node; Ok(Box::from_raw(curr_node).data).
LRemoveWrite(t) ==
    /\ lpc[t] = "removeWrite"
    /\ slot' = [slot EXCEPT ![lcur[t]] = lnext[t], ![lnode[t]] = 0]
    /\ ldata' = [ldata EXCEPT ![lnode[t]] = 0]
    /\ lalloc' = lalloc \ {lnode[t]}
    /\ lres' = [lres EXCEPT ![t] = Res(TRUE, ldata[lnode[t]])]
    /\ labs' = [labs EXCEPT ![t] = AbsResult("remove", lkey[t], absSet)]
    /\ absSet' = AbsNext("remove", lkey[t], absSet)
    /\ lpc' = [lpc EXCEPT ![t] = "ret"]
    /\ UNCHANGED <<lockOwner, lop, lkey, lcur, lnode, lnext, refSet, refRes, notList>>

\* The operation returns; the cursor's guard is dropped.
LReturn(t) ==
    /\ lpc[t] = "ret"
    /\ lockOwner' = [lockOwner EXCEPT ![lcur[t]] = 0]
    /\ lpc' = [lpc EXCEPT ![t] = "idle"]
    /\ lop' = [lop EXCEPT ![t] = "none"]
    /\ lkey' = [lkey EXCEPT ![t] = 0]
    /\ lcur' = [lcur EXCEPT ![t] = 0]
    /\ lnode' = [lnode EXCEPT ![t] = 0]
    /\ lnext' = [lnext EXCEPT ![t] = 0]
    /\ lres' = [lres EXCEPT ![t] = NoRes]
    /\ labs' = [labs EXCEPT ![t] = NoRes]
    /\ UNCHANGED <<slot, ldata, lalloc, absSet, refSet, refRes, notList>>

\* iter(): Iter(Some(self.head.lock().unwrap())).
IterStart(t) ==
    /\ lpc[t] = "idle"
    /\ CanLock(0)
    /\ lockOwner' = [lockOwner EXCEPT ![0] = t]
    /\ lpc' = [lpc EXCEPT ![t] = "iterPark"]
    /\ lop' = [lop EXCEPT ![t] = "iter"]
    /\ lcur' = [lcur EXCEPT ![t] = 0]
    /\ UNCHANGED <<slot, ldata, lalloc, lkey, lnode, lnext, lres, labs, absSet, refSet, refRes, notList>>

\* Iter::next: node = **guard; on null, *self = Iter(None) drops the guard and
\* None is returned (the iterator is consumed).
IterNext(t) ==
    /\ lpc[t] = "iterPark"
    /\ LET node == slot[lcur[t]] IN
       IF node = 0
       THEN /\ lockOwner' = [lockOwner EXCEPT ![lcur[t]] = 0]
            /\ lpc' = [lpc EXCEPT ![t] = "idle"]
            /\ lop' = [lop EXCEPT ![t] = "none"]
            /\ lcur' = [lcur EXCEPT ![t] = 0]
            /\ UNCHANGED lnode
       ELSE /\ lnode' = [lnode EXCEPT ![t] = node]
            /\ lpc' = [lpc EXCEPT ![t] = "iterLock"]
            /\ UNCHANGED <<lockOwner, lop, lcur>>
    /\ UNCHANGED <<slot, ldata, lalloc, lkey, lnext, lres, labs, absSet, refSet, refRes, notList>>

\* Iter::next: let next_node = (*node).next.lock().unwrap().
IterLock(t) ==
    /\ lpc[t] = "iterLock"
    /\ CanLock(lnode[t])
    /\ lockOwner' = [lockOwner EXCEPT ![lnode[t]] = t]
    /\ lpc' = [lpc EXCEPT ![t] = "iterHandoff"]
    /\ UNCHANGED <<slot, ldata, lalloc, lop, lkey, lcur, lnode, lnext, lres, labs, absSet, refSet, refRes, notList>>

\* Mutant: the iterator keeps the guards of the slots it has passed.
IterHandoffKeepsGuard(t) ==
    /\ lpc[t] = "iterHandoff"
    /\ lcur' = [lcur EXCEPT ![t] = lnode[t]]
    /\ lnode' = [lnode EXCEPT ![t] = 0]
    /\ lpc' = [lpc EXCEPT ![t] = "iterPark"]
    /\ UNCHANGED <<slot, ldata, lalloc, lockOwner, lop, lkey, lnext, lres, labs, absSet, refSet, refRes, notList>>

\* Iter::next: *self = Iter(Some(next_node)) drops the old guard;
\* Some(&(*node).data) is returned and the iterator stays on the new slot.
IterHandoff(t) ==
    /\ lpc[t] = "iterHandoff"
    /\ lockOwner' = [lockOwner EXCEPT ![lcur[t]] = 0]
    /\ lcur' = [lcur EXCEPT ![t] = lnode[t]]
    /\ lnode' = [lnode EXCEPT ![t] = 0]
    /\ lpc' = [lpc EXCEPT ![t] = "iterPark"]
    /\ UNCHANGED <<slot, ldata, lalloc, lop, lkey, lnext, lres, labs, absSet, refSet, refRes, notList>>

\* The iterator is dropped between two calls of next: its guard is dropped.
IterDrop(t) ==
    /\ lpc[t] = "iterPark"
    /\ lockOwner' = [lockOwner EXCEPT ![lcur[t]] = 0]
    /\ lpc' = [lpc EXCEPT ![t] = "idle"]
    /\ lop' = [lop EXCEPT ![t] = "none"]
    /\ lcur' = [lcur EXCEPT ![t] = 0]
    /\ UNCHANGED <<slot, ldata, lalloc, lkey, lnode, lnext, lres, labs, absSet, refSet, refRes, notList>>


\* ================================================================== hazard_pointer

\* The SeqCst fences of try_protect (hazard.rs:45) and collect (retire.rs:55)
\* order the hazard store before the validation load and the unlink before
\* the snapshot loads, so the atomics are modelled as interleaved steps.

Readers == 1..NumReaders
\* The shields of the scenarios that exercise the registry alone, one holder
\* per shield.
Shields == 1..NumShields
RecycleShields == 1..NumRecycled
Holders == Readers \cup Shields \cup RecycleShields
Addrs == 1..MaxAddr
\* A holder owns one shield at a time and a slot is allocated only when every
\* slot seen was active, so there are never more slots than holders; the
\* last identifier stays unused.
HSlots == 1..(Cardinality(Holders) + 1)

HazInit ==
    /\ hhead = 0
    /\ hnext = [s \in HSlots |-> 0]
    /\ hactive = [s \in HSlots |-> FALSE]
    /\ hhazard = [s \in HSlots |-> 0]
    /\ src = 1
    /\ heap = {1}
    /\ rpc = [r \in Holders |-> "idle"]
    /\ rnode = [r \in Holders |-> 0]
    /\ rslot = [r \in Holders |-> 0]
    /\ rptr = [r \in Holders |-> 0]
    /\ rheld = [r \in Holders |-> 0]
    /\ wpc = "idle"
    /\ wold = 0
    /\ retired = <<>>
    /\ hash_set = {}
    /\ cnode = 0
    /\ ci = 0
    /\ new_inner = <<>>
    /\ ccover = {}
    /\ cfreed = {}
    /\ cstart = <<>>
    /\ cseen = {}

\* The reclaimer is between the head load of all_hazards and the return of
\* collect.
Collecting == wpc \in {"c_active", "c_hazard", "c_free", "c_done"}

\* A store of `v` into the hazard word of slot s ends the coverage of any
\* other address the slot had published.
StoreHazard(s, v) ==
    /\ hhazard' = [hhazard EXCEPT ![s] = v]
    /\ ccover' = {c \in ccover : c[1] # s \/ c[2] = v}
    /\ cseen' = IF Collecting /\ hactive[s] THEN cseen \cup ({v} \cap Range(cstart)) ELSE cseen

\* Shield::new -> acquire_slot -> try_acquire_inactive: node = head.load().
TryAcquireLoad(r) ==
    /\ rpc[r] = "idle"
    /\ rnode' = [rnode EXCEPT ![r] = hhead]
    /\ rpc' = [rpc EXCEPT ![r] = "scan"]
    /\ UNCHANGED <<hhead, hnext, hactive, hhazard, src, heap, rslot, rptr, rheld,
                   wpc, wold, retired, hash_set, cnode, ci, new_inner, ccover, cfreed, cstart, cseen, notHaz>>

\* Mutant: a slot is taken whatever its active flag holds (a swap, not a
\* compare-exchange).
CompareExchangeAlways(current, expected) == TRUE

\* Mutant: the compare-exchange never succeeds, so no slot is recycled.
CompareExchangeNever(current, expected) == FALSE

\* compare_exchange(expected, _) succeeds iff the word holds `expected`.
CompareExchangeOk(current, expected) == current = expected

\* try_acquire_inactive: one iteration of the while loop
\* (active.compare_exchange(false, true)), or the return of None.
TryAcquireStep(r) ==
    /\ rpc[r] = "scan"
    /\ IF rnode[r] = 0
       THEN /\ rpc' = [rpc EXCEPT ![r] = "allocLoad"]
            /\ UNCHANGED <<hactive, rnode, rslot, cseen>>
       ELSE IF CompareExchangeOk(hactive[rnode[r]], FALSE)
       THEN /\ hactive' = [hactive EXCEPT ![rnode[r]] = TRUE]
            /\ rslot' = [rslot EXCEPT ![r] = rnode[r]]
            /\ rnode' = [rnode EXCEPT ![r] = 0]
            /\ rpc' = [rpc EXCEPT ![r] = "ready"]
            /\ cseen' = IF Collecting THEN cseen \cup ({hhazard[rnode[r]]} \cap Range(cstart)) ELSE cseen
       ELSE /\ rnode' = [rnode EXCEPT ![r] = hnext[rnode[r]]]
            /\ UNCHANGED <<hactive, rslot, rpc, cseen>>
    /\ UNCHANGED <<hhead, hnext, hhazard, src, heap, rptr, rheld,
                   wpc, wold, retired, hash_set, cnode, ci, new_inner, ccover, cfreed, cstart, notHaz>>

\* acquire_slot: past_head = self.head.load(); the new slot is boxed.
AcquireLoadHead(r) ==
    /\ rpc[r] = "allocLoad"
    /\ rnode' = [rnode EXCEPT ![r] = hhead]
    /\ rpc' = [rpc EXCEPT ![r] = "allocCas"]
    /\ UNCHANGED <<hhead, hnext, hactive, hhazard, src, heap, rslot, rptr, rheld,
                   wpc, wold, retired, hash_set, cnode, ci, new_inner, ccover, cfreed, cstart, cseen, notHaz>>

\* acquire_slot: head.compare_exchange(past_head, new_hazard_slot); on failure
\* the box is dropped and the loop repeats. Slots are pushed at the head, so
\* the head is the newest slot.
AcquireCas(r) ==
    /\ rpc[r] = "allocCas"
    /\ IF hhead = rnode[r]
       THEN LET new_hazard_slot == hhead + 1 IN
            /\ hnext' = [hnext EXCEPT ![new_hazard_slot] = rnode[r]]
            /\ hactive' = [hactive EXCEPT ![new_hazard_slot] = TRUE]
            /\ hhead' = new_hazard_slot
            /\ rslot' = [rslot EXCEPT ![r] = new_hazard_slot]
            /\ rnode' = [rnode EXCEPT ![r] = 0]
            /\ rpc' = [rpc EXCEPT ![r] = "ready"]
       ELSE /\ rpc' = [rpc EXCEPT ![r] = "allocLoad"]
            /\ UNCHANGED <<hnext, hactive, hhead, rslot, rnode>>
    /\ UNCHANGED <<hhazard, src, heap, rptr, rheld,
                   wpc, wold, retired, hash_set, cnode, ci, new_inner, ccover, cfreed, cstart, cseen, notHaz>>

\* Shield::protect: let mut pointer = src.load(Relaxed).
ProtectLoad(r) ==
    /\ rpc[r] \in {"ready", "protected"}
    /\ rptr' = [rptr EXCEPT ![r] = src]
    /\ rpc' = [rpc EXCEPT ![r] = "tp_store"]
    /\ UNCHANGED <<hhead, hnext, hactive, hhazard, src, heap, rnode, rslot, rheld,
                   wpc, wold, retired, hash_set, cnode, ci, new_inner, ccover, cfreed, cstart, cseen, notHaz>>

\* try_protect step 1: slt.hazard.store(ptr).
TryProtectStore(r) ==
    /\ rpc[r] = "tp_store"
    /\ StoreHazard(rslot[r], rptr[r])
    /\ rheld' = [rheld EXCEPT ![r] = IF rheld[r] = rptr[r] THEN rheld[r] ELSE 0]
    /\ rpc' = [rpc EXCEPT ![r] = "tp_load"]
    /\ UNCHANGED <<hhead, hnext, hactive, src, heap, rnode, rslot, rptr,
                   wpc, wold, retired, hash_set, cnode, ci, new_inner, cfreed, cstart, notHaz>>

\* Mutant: try_protect does not validate.
ValidatedAlways(ptr, source) == TRUE

\* The outcome of the validation of try_protect: ptr == source.
Validated(ptr, source) == ptr = source

\* try_protect steps 2 and 3: source = src.load(); validated, or *pointer = source.
TryProtectValidate(r) ==
    /\ rpc[r] = "tp_load"
    /\ IF Validated(rptr[r], src)
       THEN /\ rpc' = [rpc EXCEPT ![r] = "protected"]
            /\ rheld' = [rheld EXCEPT ![r] = rptr[r]]
            /\ UNCHANGED rptr
       ELSE /\ rpc' = [rpc EXCEPT ![r] = "tp_clear"]
            /\ rptr' = [rptr EXCEPT ![r] = src]
            /\ UNCHANGED rheld
    /\ UNCHANGED <<hhead, hnext, hactive, hhazard, src, heap, rnode, rslot,
                   wpc, wold, retired, hash_set, cnode, ci, new_inner, ccover, cfreed, cstart, cseen, notHaz>>

\* try_protect step 3, failure: slt.hazard.store(0); protect loops.
TryProtectClear(r) ==
    /\ rpc[r] = "tp_clear"
    /\ StoreHazard(rslot[r], 0)
    /\ rheld' = [rheld EXCEPT ![r] = 0]
    /\ rpc' = [rpc EXCEPT ![r] = "tp_store"]
    /\ UNCHANGED <<hhead, hnext, hactive, src, heap, rnode, rslot, rptr,
                   wpc, wold, retired, hash_set, cnode, ci, new_inner, cfreed, cstart, notHaz>>

\* Mutant: the drop releases the slot with its hazard word left as it is.
ShieldDropKeepsHazard(r) ==
    /\ rpc[r] \in {"ready", "protected"}
    /\ rheld' = [rheld EXCEPT ![r] = 0]
    /\ rptr' = [rptr EXCEPT ![r] = 0]
    /\ rpc' = [rpc EXCEPT ![r] = "drop"]
    /\ UNCHANGED <<hhead, hnext, hactive, hhazard, src, heap, rnode, rslot,
                   wpc, wold, retired, hash_set, cnode, ci, new_inner, ccover, cfreed, cstart, cseen, notHaz>>

\* Mutant: the drop releases the slot first and never clears the hazard word.
ShieldDropActiveFirst(r) ==
    /\ rpc[r] \in {"ready", "protected"}
    /\ hactive' = [hactive EXCEPT ![rslot[r]] = FALSE]
    /\ rheld' = [rheld EXCEPT ![r] = 0]
    /\ rptr' = [rptr EXCEPT ![r] = 0]
    /\ rpc' = [rpc EXCEPT ![r] = "drop"]
    /\ UNCHANGED <<hhead, hnext, hhazard, src, heap, rnode, rslot,
                   wpc, wold, retired, hash_set, cnode, ci, new_inner, ccover, cfreed, cstart, cseen, notHaz>>

\* Drop for Shield: slt.hazard.store(0).
ShieldDropHazard(r) ==
    /\ rpc[r] \in {"ready", "protected"}
    /\ StoreHazard(rslot[r], 0)
    /\ rheld' = [rheld EXCEPT ![r] = 0]
    /\ rptr' = [rptr EXCEPT ![r] = 0]
    /\ rpc' = [rpc EXCEPT ![r] = "drop"]
    /\ UNCHANGED <<hhead, hnext, hactive, src, heap, rnode, rslot,
                   wpc, wold, retired, hash_set, cnode, ci, new_inner, cfreed, cstart, notHaz>>

\* Drop for Shield: slt.active.store(false).
ShieldDropActive(r) ==
    /\ rpc[r] = "drop"
    /\ hactive' = [hactive EXCEPT ![rslot[r]] = FALSE]
    /\ rslot' = [rslot EXCEPT ![r] = 0]
    /\ rpc' = [rpc EXCEPT ![r] = "idle"]
    /\ UNCHANGED <<hhead, hnext, hhazard, src, heap, rnode, rptr, rheld,
                   wpc, wold, retired, hash_set, cnode, ci, new_inner, ccover, cfreed, cstart, cseen, notHaz>>

\* The reclaimer's unlink (the caller's side of the safety contract of
\* retire): a fresh object replaces the one src points to.
Unlink ==
    /\ wpc = "idle"
    /\ \E new \in Addrs \ heap :
          /\ heap' = heap \cup {new}
          /\ src' = new
    /\ wold' = src
    /\ wpc' = "retire"
    /\ UNCHANGED <<hhead, hnext, hactive, hhazard, rpc, rnode, rslot, rptr, rheld,
                   retired, hash_set, cnode, ci, new_inner, ccover, cfreed, cstart, cseen, notHaz>>

\* The deleter retire pairs with the object at address a: free::<T> for the
\* object's type T. The objects at odd and at even addresses are of two
\* types, so that two deleters are in use.
Deleter(a) == a % 2

\* Mutant: the threshold test is off by one.
RetireOffByOne ==
    /\ wpc = "retire"
    /\ retired' = Append(retired, wold)
    /\ wold' = 0
    /\ wpc' = IF Len(retired') > THRESHOLD THEN "collect" ELSE "idle"
    /\ inner_free' = Append(inner_free, Deleter(wold))
    /\ UNCHANGED <<hhead, hnext, hactive, hhazard, src, heap, rpc, rnode, rslot, rptr, rheld,
                   hash_set, cnode, ci, new_inner, ccover, cfreed, cstart, cseen, new_inner_free,
                   notReclaim>>

\* RetiredSet::retire: inner.push(..); collect when len >= THRESHOLD.
Retire ==
    /\ wpc = "retire"
    /\ retired' = Append(retired, wold)
    /\ wold' = 0
    /\ wpc' = IF Len(retired') >= THRESHOLD THEN "collect" ELSE "idle"
    /\ inner_free' = Append(inner_free, Deleter(wold))
    /\ UNCHANGED <<hhead, hnext, hactive, hhazard, src, heap, rpc, rnode, rslot, rptr, rheld,
                   hash_set, cnode, ci, new_inner, ccover, cfreed, cstart, cseen, new_inner_free,
                   notReclaim>>

\* A direct call of RetiredSet::collect.
CallCollect ==
    /\ wpc = "idle"
    /\ wpc' = "collect"
    /\ UNCHANGED <<hhead, hnext, hactive, hhazard, src, heap, rpc, rnode, rslot, rptr, rheld,
                   wold, retired, hash_set, cnode, ci, new_inner, ccover, cfreed, cstart, cseen, notHaz>>

\* collect: fence; all_hazards: hash_set = {}, node = head.load().
AllHazardsLoadHead ==
    /\ wpc = "collect"
    /\ hash_set' = {}
    /\ cnode' = hhead
    /\ wpc' = "c_active"
    /\ ccover' = {<<s, hhazard[s]>> : s \in {x \in HSlots : hactive[x] /\ hhazard[x] # 0}}
    /\ cfreed' = {}
    /\ cstart' = retired
    /\ cseen' = {hhazard[s] : s \in {x \in HSlots : hactive[x]}} \cap Range(retired)
    /\ UNCHANGED <<hhead, hnext, hactive, hhazard, src, heap, rpc, rnode, rslot, rptr, rheld,
                   wold, retired, ci, new_inner, notHaz>>

\* all_hazards: node.is_null() returns the set; else n.active.load().
AllHazardsActive ==
    /\ wpc = "c_active"
    /\ IF cnode = 0
       THEN /\ wpc' = "c_free"
            /\ ci' = 0
            /\ new_inner' = <<>>
            /\ UNCHANGED cnode
       ELSE IF hactive[cnode]
       THEN /\ wpc' = "c_hazard"
            /\ UNCHANGED <<cnode, ci, new_inner>>
       ELSE /\ cnode' = hnext[cnode]
            /\ UNCHANGED <<wpc, ci, new_inner>>
    /\ UNCHANGED <<hhead, hnext, hactive, hhazard, src, heap, rpc, rnode, rslot, rptr, rheld,
                   wold, retired, hash_set, ccover, cfreed, cstart, cseen, notHaz>>

\* all_hazards: hash_set.insert(n.hazard.load()); node = n.next.
AllHazardsHazard ==
    /\ wpc = "c_hazard"
    /\ hash_set' = hash_set \cup {hhazard[cnode]}
    /\ cnode' = hnext[cnode]
    /\ wpc' = "c_active"
    /\ UNCHANGED <<hhead, hnext, hactive, hhazard, src, heap, rpc, rnode, rslot, rptr, rheld,
                   wold, retired, ci, new_inner, ccover, cfreed, cstart, cseen, notHaz>>

\* Mutant: collect keeps every entry.
FreesNever(pointer, hazard_bag) == FALSE

\* Mutant: collect frees every entry.
FreesAll(pointer, hazard_bag) == TRUE

\* collect: whether the entry `pointer` is freed, given the snapshot.
Frees(pointer, hazard_bag) == pointer \notin hazard_bag

\* Mutant: collect pushes the entries it has freed, too.
AfterFreePushes(vec, x) == Append(vec, x)

\* collect: new_inner_vec after an entry was freed (`continue`: the entry is
\* not pushed).
AfterFree(vec, x) == vec

\* collect: one iteration of the for loop over inner, or, after the last,
\* self.inner = new_inner_vec.
CollectStep ==
    /\ wpc = "c_free"
    /\ IF ci < Len(retired)
       THEN LET pointer == retired[ci + 1]
                free == inner_free[ci + 1] IN
            /\ ci' = ci + 1
            /\ IF Frees(pointer, hash_set)
               THEN /\ heap' = heap \ {pointer}
                    /\ cfreed' = cfreed \cup {pointer}
                    /\ new_inner' = AfterFree(new_inner, pointer)
                    /\ new_inner_free' = AfterFree(new_inner_free, free)
               ELSE /\ new_inner' = Append(new_inner, pointer)
                    /\ new_inner_free' = Append(new_inner_free, free)
                    /\ UNCHANGED <<heap, cfreed>>
            /\ UNCHANGED <<retired, inner_free, wpc>>
       ELSE /\ retired' = new_inner
            /\ inner_free' = new_inner_free
            /\ wpc' = "c_done"
            /\ UNCHANGED <<ci, new_inner, new_inner_free, heap, cfreed>>
    /\ UNCHANGED <<hhead, hnext, hactive, hhazard, src, rpc, rnode, rslot, rptr, rheld,
                   wold, hash_set, cnode, ccover, cstart, cseen, notReclaim>>

\* collect returns, to the loop of Drop for RetiredSet when the drop called it.
CollectReturn ==
    /\ wpc = "c_done"
    /\ wpc' = IF in_drop THEN "drop_check" ELSE "idle"
    /\ hash_set' = {}
    /\ ci' = 0
    /\ new_inner' = <<>>
    /\ ccover' = {}
    /\ cfreed' = {}
    /\ cstart' = <<>>
    /\ cseen' = {}
    /\ new_inner_free' = <<>>
    /\ UNCHANGED <<hhead, hnext, hactive, hhazard, src, heap, rpc, rnode, rslot, rptr, rheld,
                   wold, retired, cnode, inner_free, notReclaim>>

\* Drop for RetiredSet begins (the owning thread ends).
DropCall ==
    /\ wpc = "idle"
    /\ ~in_drop
    /\ in_drop' = TRUE
    /\ dstart' = Range(retired)
    /\ dpasses' = 0
    /\ wpc' = "drop_check"
    /\ UNCHANGED <<hhead, hnext, hactive, hhazard, src, heap, rpc, rnode, rslot, rptr, rheld,
                   wold, retired, hash_set, cnode, ci, new_inner, ccover, cfreed, cstart, cseen,
                   listVars, cacheVars, poolVars, recycleVars, deleterVars>>

\* Mutant: the drop runs a single collect pass.
DropLoopOnce(inner, passes) == inner = <<>> \/ passes >= 1

\* Drop for RetiredSet: the loop ends when self.inner.is_empty().
DropLoopEnds(inner, passes) == inner = <<>>

\* Drop for RetiredSet: while !self.inner.is_empty() { self.collect(); }
DropCheck ==
    /\ wpc = "drop_check"
    /\ IF DropLoopEnds(retired, dpasses)
       THEN /\ wpc' = "dropped"
            /\ UNCHANGED dpasses
       ELSE /\ wpc' = "collect"
            /\ dpasses' = IF dpasses < 2 THEN dpasses + 1 ELSE dpasses
    /\ UNCHANGED <<hhead, hnext, hactive, hhazard, src, heap, rpc, rnode, rslot, rptr, rheld,
                   wold, retired, hash_set, cnode, ci, new_inner, ccover, cfreed, cstart, cseen,
                   in_drop, dstart, listVars, cacheVars, poolVars, recycleVars, deleterVars>>

NextHaz ==
    \/ \E r \in Readers :
        \/ TryAcquireLoad(r)
        \/ TryAcquireStep(r)
        \/ AcquireLoadHead(r)
        \/ AcquireCas(r)
        \/ ProtectLoad(r)
        \/ TryProtectStore(r)
        \/ TryProtectValidate(r)
        \/ TryProtectClear(r)
        \/ ShieldDropHazard(r)
        \/ ShieldDropActive(r)
    \/ Unlink
    \/ Retire
    \/ CallCollect
    \/ AllHazardsLoadHead
    \/ AllHazardsActive
    \/ AllHazardsHazard
    \/ CollectStep
    \/ CollectReturn

\* The readers use their shields while the reclaimer unlinks and retires
\* objects and then drops its retired set.
NextDrop ==
    \/ \E r \in Readers :
        \/ TryAcquireLoad(r)
        \/ TryAcquireStep(r)
        \/ AcquireLoadHead(r)
        \/ AcquireCas(r)
        \/ ProtectLoad(r)
        \/ TryProtectStore(r)
        \/ TryProtectValidate(r)
        \/ TryProtectClear(r)
        \/ ShieldDropHazard(r)
        \/ ShieldDropActive(r)
    \/ Unlink
    \/ Retire
    \/ DropCall
    \/ DropCheck
    \/ AllHazardsLoadHead
    \/ AllHazardsActive
    \/ AllHazardsHazard
    \/ CollectStep
    \/ CollectReturn

\* retire, direct calls of collect and the drop of the retired set, next to
\* the readers' shields.
NextReclaim ==
    \/ NextDrop
    \/ CallCollect

\* The steps of the thread that runs the drop.
DropRun ==
    \/ DropCheck
    \/ AllHazardsLoadHead
    \/ AllHazardsActive
    \/ AllHazardsHazard
    \/ CollectStep
    \/ CollectReturn

\* ------------------------------------------------------------------ registry scenarios

\* The steps of Shield::new, of protect and of the drop of holder r's shield.
ShieldNewStep(r) ==
    \/ TryAcquireStep(r)
    \/ AcquireLoadHead(r)
    \/ AcquireCas(r)

ProtectStep(r) ==
    \/ ProtectLoad(r)
    \/ TryProtectStore(r)
    \/ TryProtectValidate(r)
    \/ TryProtectClear(r)

ShieldDropStep(r) ==
    \/ ShieldDropHazard(r)
    \/ ShieldDropActive(r)

\* No operation of a shield is in progress.
Quiescent == \A r \in Holders : rpc[r] \in {"idle", "ready", "protected"}

\* The tests' sources (AtomicPtr::new(data as *mut ())): the pointer that
\* protect reads takes any value; nothing is allocated or retired.
SrcStore(a) ==
    /\ wpc = "idle"
    /\ src' = a
    /\ UNCHANGED <<hhead, hnext, hactive, hhazard, heap, rpc, rnode, rslot, rptr, rheld,
                   wpc, wold, retired, hash_set, cnode, ci, new_inner, ccover, cfreed, cstart, cseen, notHaz>>

\* Shields are created, used and dropped in any interleaving; the registry is
\* read (all_hazards, here through a collect of an empty buffer) while no
\* shield operation is in progress.
NextShields ==
    \/ \E r \in Shields :
          /\ wpc = "idle"
          /\ \/ TryAcquireLoad(r)
             \/ ShieldNewStep(r)
             \/ ProtectStep(r)
             \/ ShieldDropStep(r)
    \/ \E a \in Addrs : SrcStore(a)
    \/ (Quiescent /\ CallCollect)
    \/ AllHazardsLoadHead
    \/ AllHazardsActive
    \/ AllHazardsHazard
    \/ CollectStep
    \/ CollectReturn

\* tests::retire_threshold_collect, the loop body: a fresh object
\* (Box::leak(Box::new(..))) is about to be passed to retire. No hazard word
\* ever holds the address of such an object, so it makes no difference which
\* free address the allocator returns: the lowest is taken.
RetireFresh ==
    /\ wpc = "idle"
    /\ LET free == (1..(THRESHOLD + MaxAddr)) \ heap
           new == CHOOSE a \in free : \A b \in free : a <= b
       IN /\ heap' = heap \cup {new}
          /\ wold' = new
    /\ wpc' = "retire"
    /\ UNCHANGED <<hhead, hnext, hactive, hhazard, src, rpc, rnode, rslot, rptr, rheld,
                   retired, hash_set, cnode, ci, new_inner, ccover, cfreed, cstart, cseen, notHaz>>

\* Objects are retired one after the other, collect runs only from retire;
\* meanwhile the readers protect the object src points to (src is never
\* written, so the validation of try_protect does not fail).
NextRetire ==
    \/ \E r \in Readers :
          \/ TryAcquireLoad(r)
          \/ ShieldNewStep(r)
          \/ ProtectLoad(r)
          \/ TryProtectStore(r)
          \/ TryProtectValidate(r)
          \/ ShieldDropStep(r)
    \/ RetireFresh
    \/ Retire
    \/ AllHazardsLoadHead
    \/ AllHazardsActive
    \/ AllHazardsHazard
    \/ CollectStep
    \/ CollectReturn

\* tests::recycle_slots, first and last phase: Shield::new. In the last phase
\* no more shields are created than the first phase created.
RecycleNew(r) ==
    /\ phase \in {"create", "recreate"}
    /\ phase = "recreate" =>
           Cardinality({x \in RecycleShields : rpc[x] # "idle"}) < Cardinality(old_slots)
    /\ TryAcquireLoad(r)

\* The first shields are all created: old_slots is computed and
\* drop(shields) begins.
RecycleRelease ==
    /\ phase = "create"
    /\ \A r \in RecycleShields : rpc[r] \in {"idle", "ready"}
    /\ \E r \in RecycleShields : rpc[r] = "ready"
    /\ old_slots' = {rslot[r] : r \in {x \in RecycleShields : rpc[x] = "ready"}}
    /\ phase' = "release"
    /\ UNCHANGED <<listVars, hazVars, cacheVars, poolVars, dropVars, deleterVars>>

\* drop(shields): each shield is dropped.
RecycleDrop(r) ==
    /\ phase = "release"
    /\ ShieldDropStep(r)

\* Every shield is dropped: the new shields are created.
RecycleRecreate ==
    /\ phase = "release"
    /\ \A r \in RecycleShields : rpc[r] = "idle"
    /\ phase' = "recreate"
    /\ UNCHANGED <<old_slots, listVars, hazVars, cacheVars, poolVars, dropVars, deleterVars>>

NextRecycle ==
    \/ \E r \in RecycleShields :
          \/ RecycleNew(r)
          \/ ShieldNewStep(r)
          \/ RecycleDrop(r)
    \/ RecycleRelease
    \/ RecycleRecreate


\* ================================================================== hello_server/cache.rs

Callers == 1..NumCallers
CacheKeys == 1..MaxCacheKey
Absent == [st |-> "absent", v |-> 0]
Pending == [st |-> "pending", v |-> 0]
Ready(v) == [st |-> "ready", v |-> v]

\* The value the producer f of caller t returns for key k: every caller
\* passes its own closure, so the results tell the invocations apart.
FResult(t, k) == k * (NumCallers + 2) + t

CacheInit ==
    /\ cmap = [k \in CacheKeys |-> Absent]
    /\ rw_readers = {}
    /\ rw_writer = 0
    /\ cpc = [t \in Callers |-> "idle"]
    /\ ckey = [t \in Callers |-> 0]
    /\ cresult = [t \in Callers |-> 0]
    /\ barrier = {}
    /\ finvoked = [k \in CacheKeys |-> {}]

\* RwLock::read / RwLock::write
CanRead == rw_writer = 0
CanWrite == rw_writer = 0 /\ rw_readers = {}

\* get_or_insert_with(key, f): let read_hash_map = self.inner.read().unwrap().
CacheCall(t, k) ==
    /\ cpc[t] = "idle"
    /\ CanRead
    /\ rw_readers' = rw_readers \cup {t}
    /\ ckey' = [ckey EXCEPT ![t] = k]
    /\ cresult' = [cresult EXCEPT ![t] = 0]
    /\ cpc' = [cpc EXCEPT ![t] = "lookup"]
    /\ UNCHANGED <<cmap, rw_writer, barrier, finvoked, notCache>>

\* match read_hash_map.get(&key): the value is returned, or the read guard is
\* dropped and the call goes on to poll (pending) or to insert (absent).
CacheLookup(t) ==
    /\ cpc[t] = "lookup"
    /\ rw_readers' = rw_readers \ {t}
    /\ LET e == cmap[ckey[t]] IN
       CASE e.st = "ready"   -> /\ cresult' = [cresult EXCEPT ![t] = e.v]
                                /\ cpc' = [cpc EXCEPT ![t] = "done"]
         [] e.st = "pending" -> /\ cpc' = [cpc EXCEPT ![t] = "poll"]
                                /\ UNCHANGED cresult
         [] e.st = "absent"  -> /\ cpc' = [cpc EXCEPT ![t] = "wlock"]
                                /\ UNCHANGED cresult
    /\ UNCHANGED <<cmap, rw_writer, ckey, barrier, finvoked, notCache>>

\* The polling loops: let r_hash_map = self.inner.read().unwrap().
CachePollRead(t) ==
    /\ cpc[t] = "poll"
    /\ CanRead
    /\ rw_readers' = rw_readers \cup {t}
    /\ cpc' = [cpc EXCEPT ![t] = "poll_check"]
    /\ UNCHANGED <<cmap, rw_writer, ckey, cresult, barrier, finvoked, notCache>>

\* The polling loops: return value_final.clone(), or drop(r_hash_map) and loop.
CachePollCheck(t) ==
    /\ cpc[t] = "poll_check"
    /\ rw_readers' = rw_readers \ {t}
    /\ LET e == cmap[ckey[t]] IN
       IF e.st = "ready"
       THEN /\ cresult' = [cresult EXCEPT ![t] = e.v]
            /\ cpc' = [cpc EXCEPT ![t] = "done"]
       ELSE /\ cpc' = [cpc EXCEPT ![t] = "poll"]
            /\ UNCHANGED cresult
    /\ UNCHANGED <<cmap, rw_writer, ckey, barrier, finvoked, notCache>>

\* let mut write_hash_map = self.inner.write().unwrap().
CacheWriteLock(t) ==
    /\ cpc[t] = "wlock"
    /\ CanWrite
    /\ rw_writer' = t
    /\ cpc' = [cpc EXCEPT ![t] = "wcheck"]
    /\ UNCHANGED <<cmap, rw_readers, ckey, cresult, barrier, finvoked, notCache>>

\* Mutant: the second check under the write lock is missing.
ContainsKeyNever(m, k) == FALSE

\* write_hash_map.contains_key(&key)
ContainsKey(m, k) == m[k].st # "absent"

\* Mutant: the write guard is kept while f runs.
WriterKept(t) == t

\* The holder of the write lock once the pending marker is inserted:
\* drop(write_hash_map) comes before f is called.
WriterAfterInsert(t) == 0

\* if contains_key { drop; poll } else { insert(key, Arc(None)); drop(write_hash_map) }.
CacheElect(t) ==
    /\ cpc[t] = "wcheck"
    /\ IF ContainsKey(cmap, ckey[t])
       THEN /\ rw_writer' = 0
            /\ cpc' = [cpc EXCEPT ![t] = "poll"]
            /\ UNCHANGED cmap
       ELSE /\ cmap' = [cmap EXCEPT ![ckey[t]] = Pending]
            /\ rw_writer' = WriterAfterInsert(t)
            /\ cpc' = [cpc EXCEPT ![t] = "call_f"]
    /\ UNCHANGED <<rw_readers, ckey, cresult, barrier, finvoked, notCache>>

\* let result = f(key.clone()): f is entered.
ProducerStart(t) ==
    /\ cpc[t] = "call_f"
    /\ finvoked' = [finvoked EXCEPT ![ckey[t]] = @ \cup {t}]
    /\ cpc' = [cpc EXCEPT ![t] = "in_f"]
    /\ UNCHANGED <<cmap, rw_readers, rw_writer, ckey, cresult, barrier, notCache>>

\* f returns its value.
ProducerReturn(t) ==
    /\ cpc[t] = "in_f"
    /\ cresult' = [cresult EXCEPT ![t] = FResult(t, ckey[t])]
    /\ cpc' = [cpc EXCEPT ![t] = "wlock2"]
    /\ UNCHANGED <<cmap, rw_readers, rw_writer, ckey, barrier, finvoked, notCache>>

\* let mut write_hash_map = self.inner.write().unwrap() (after f).
CacheWriteLock2(t) ==
    /\ cpc[t] = "wlock2"
    /\ CanWrite
    /\ rw_writer' = t
    /\ cpc' = [cpc EXCEPT ![t] = "store"]
    /\ UNCHANGED <<cmap, rw_readers, ckey, cresult, barrier, finvoked, notCache>>

\* *write_hash_map.get_mut(&key).unwrap() = Arc::new(Some(result.clone()));
\* drop(write_hash_map); result
CacheStore(t) ==
    /\ cpc[t] = "store"
    /\ cmap' = [cmap EXCEPT ![ckey[t]] = Ready(cresult[t])]
    /\ rw_writer' = 0
    /\ cpc' = [cpc EXCEPT ![t] = "done"]
    /\ UNCHANGED <<rw_readers, ckey, cresult, barrier, finvoked, notCache>>

\* The call has returned cresult; the caller goes on.
CacheReturn(t) ==
    /\ cpc[t] = "done"
    /\ cpc' = [cpc EXCEPT ![t] = "idle"]
    /\ ckey' = [ckey EXCEPT ![t] = 0]
    /\ cresult' = [cresult EXCEPT ![t] = 0]
    /\ UNCHANGED <<cmap, rw_readers, rw_writer, barrier, finvoked, notCache>>

\* The barrier scenario: two callers with distinct keys, neither in the
\* cache, whose producers wait on a barrier of size two.
BarrierCallers == {1, 2}

BarrierCall(t) ==
    \E k \in CacheKeys :
        /\ \A u \in BarrierCallers \ {t} : ckey[u] # k
        /\ CacheCall(t, k)

\* The producer's body: barrier.wait() is reached.
ProducerBarrierArrive(t) ==
    /\ cpc[t] = "in_f"
    /\ t \notin barrier
    /\ barrier' = barrier \cup {t}
    /\ UNCHANGED <<cmap, rw_readers, rw_writer, cpc, ckey, cresult, finvoked, notCache>>

\* barrier.wait() returns once both producers have arrived; f returns.
ProducerBarrierReturn(t) ==
    /\ barrier = BarrierCallers
    /\ ProducerReturn(t)

NextCache ==
    \E t \in Callers :
        \/ \E k \in CacheKeys : CacheCall(t, k)
        \/ CacheLookup(t)
        \/ CachePollRead(t)
        \/ CachePollCheck(t)
        \/ CacheWriteLock(t)
        \/ CacheElect(t)
        \/ ProducerStart(t)
        \/ ProducerReturn(t)
        \/ CacheWriteLock2(t)
        \/ CacheStore(t)
        \/ CacheReturn(t)

\* get_or_insert_with(key, f) is called: the caller is about to take the
\* read lock of the map.
CacheInvoke(t, k) ==
    /\ cpc[t] = "idle"
    /\ ckey' = [ckey EXCEPT ![t] = k]
    /\ cresult' = [cresult EXCEPT ![t] = 0]
    /\ cpc' = [cpc EXCEPT ![t] = "rlock"]
    /\ UNCHANGED <<cmap, rw_readers, rw_writer, barrier, finvoked, notCache>>

\* A caller is inside self.inner.write(), waiting for the lock.
WriterWaiting == \E u \in Callers : cpc[u] \in {"wlock", "wlock2"}

\* Mutant: readers keep entering while a writer waits.
ReadersOvertake == CanRead

\* self.inner.read() of a lock that lets no writer starve: a reader enters
\* when no writer holds the lock and none is waiting for it.
ReadGranted == CanRead /\ ~WriterWaiting

\* let read_hash_map = self.inner.read().unwrap() is granted.
CacheReadLock(t) ==
    /\ cpc[t] = "rlock"
    /\ ReadGranted
    /\ rw_readers' = rw_readers \cup {t}
    /\ cpc' = [cpc EXCEPT ![t] = "lookup"]
    /\ UNCHANGED <<cmap, rw_writer, ckey, cresult, barrier, finvoked, notCache>>

\* The polling loops: self.inner.read() is granted.
CachePollGranted(t) ==
    /\ ReadGranted
    /\ CachePollRead(t)

\* f panics: the caller's thread unwinds out of get_or_insert_with. No guard
\* is held while f runs, so the lock is not poisoned, and nothing on the way
\* out touches the map.
ProducerPanic(t) ==
    /\ cpc[t] = "in_f"
    /\ cpc' = [cpc EXCEPT ![t] = "panicked"]
    /\ UNCHANGED <<cmap, rw_readers, rw_writer, ckey, cresult, barrier, finvoked, notCache>>

\* The steps of a call that need nothing but the scheduler (and the lock):
\* everything except the call itself and what the producer does.
CacheRun(t) ==
    \/ CacheReadLock(t)
    \/ CacheLookup(t)
    \/ CachePollGranted(t)
    \/ CachePollCheck(t)
    \/ CacheWriteLock(t)
    \/ CacheElect(t)
    \/ ProducerStart(t)
    \/ CacheWriteLock2(t)
    \/ CacheStore(t)
    \/ CacheReturn(t)

\* Calls whose producer returns, panics or never returns.
NextCacheFair ==
    \E t \in Callers :
        \/ \E k \in CacheKeys : CacheInvoke(t, k)
        \/ CacheRun(t)
        \/ ProducerReturn(t)
        \/ ProducerPanic(t)


\* ================================================================== hello_server/thread_pool.rs

Workers == 1..NumWorkers
Clients == 1..NumClients
Jobs == 1..MaxJobs
Owner == 1

PoolInit ==
    /\ job_count = 0
    /\ count_lock = 0
    /\ empty_condvar = {}
    /\ queue = <<>>
    /\ chan_open = TRUE
    /\ wstate = [w \in Workers |-> "recv"]
    /\ wjob = [w \in Workers |-> 0]
    /\ jstate = [j \in Jobs |-> "new"]
    /\ njobs = 0
    /\ mpc = [c \in Clients |-> "idle"]
    /\ mjob = [c \in Clients |-> 0]
    /\ joinSeen = [c \in Clients |-> {}]
    /\ joinOpen = [c \in Clients |-> {}]
    /\ dropIdx = 0

\* A worker's receiver is alive until its thread has ended (the closure owns
\* its Arc<Receiver>); send fails when no receiver is left.
ReceiverAlive == \E w \in Workers : wstate[w] \notin {"exited", "panicked"}

\* Mutant: execute sends the job without counting it.
ExecuteSkipsStartJob(c) ==
    /\ mpc[c] = "idle"
    /\ chan_open
    /\ njobs < MaxJobs
    /\ njobs' = njobs + 1
    /\ jstate' = [jstate EXCEPT ![njobs + 1] = "counted"]
    /\ mjob' = [mjob EXCEPT ![c] = njobs + 1]
    /\ mpc' = [mpc EXCEPT ![c] = "send"]
    /\ UNCHANGED <<job_count, count_lock, queue, chan_open, wstate, wjob, joinSeen, joinOpen, dropIdx, empty_condvar, notPool>>

\* execute: self.pool_inner.start_job(), i.e. *job_count.lock() += 1.
ExecuteStartJob(c) ==
    /\ mpc[c] = "idle"
    /\ chan_open
    /\ njobs < MaxJobs
    /\ count_lock = 0
    /\ job_count' = job_count + 1
    /\ njobs' = njobs + 1
    /\ jstate' = [jstate EXCEPT ![njobs + 1] = "counted"]
    /\ mjob' = [mjob EXCEPT ![c] = njobs + 1]
    /\ mpc' = [mpc EXCEPT ![c] = "send"]
    /\ UNCHANGED <<count_lock, queue, chan_open, wstate, wjob, joinSeen, joinOpen, dropIdx, empty_condvar, notPool>>

\* execute: sender.send(job).unwrap().
ExecuteSend(c) ==
    /\ mpc[c] = "send"
    /\ IF ReceiverAlive
       THEN /\ queue' = Append(queue, mjob[c])
            /\ jstate' = [jstate EXCEPT ![mjob[c]] = "queued"]
            /\ mpc' = [mpc EXCEPT ![c] = "idle"]
       ELSE /\ mpc' = [mpc EXCEPT ![c] = "panicked"]
            /\ UNCHANGED <<queue, jstate>>
    /\ mjob' = [mjob EXCEPT ![c] = 0]
    /\ UNCHANGED <<job_count, count_lock, chan_open, wstate, wjob, njobs, joinSeen, joinOpen, dropIdx, empty_condvar, notPool>>

\* Mutant: recv fails as soon as the channel is closed.
RecvDisconnectedOnClose(q, open) == ~open

\* receiver.recv() returns Err: the channel is closed and holds no job.
RecvDisconnected(q, open) == q = <<>> /\ ~open

\* Worker loop: receiver.recv(); Ok(job) runs it, Err breaks the loop.
WorkerRecv(w) ==
    /\ wstate[w] = "recv"
    /\ IF queue # <<>> /\ ~RecvDisconnected(queue, chan_open)
       THEN /\ wjob' = [wjob EXCEPT ![w] = Head(queue)]
            /\ jstate' = [jstate EXCEPT ![Head(queue)] = "running"]
            /\ queue' = Tail(queue)
            /\ wstate' = [wstate EXCEPT ![w] = "job"]
       ELSE /\ RecvDisconnected(queue, chan_open)
            /\ wstate' = [wstate EXCEPT ![w] = "exited"]
            /\ UNCHANGED <<wjob, jstate, queue>>
    /\ UNCHANGED <<job_count, count_lock, chan_open, njobs, mpc, mjob, joinSeen, joinOpen, dropIdx, empty_condvar, notPool>>

\* The wrapper closure: f() returns.
JobReturn(w) ==
    /\ wstate[w] = "job"
    /\ jstate' = [jstate EXCEPT ![wjob[w]] = "returned"]
    /\ wstate' = [wstate EXCEPT ![w] = "finish"]
    /\ UNCHANGED <<job_count, count_lock, queue, chan_open, wjob, njobs, mpc, mjob, joinSeen, joinOpen,
                   dropIdx, empty_condvar, notPool>>

\* The wrapper closure: f() panics; the closure and the worker's loop unwind
\* (nothing on the way calls finish_job) and the thread ends.
JobPanic(w) ==
    /\ wstate[w] = "job"
    /\ jstate' = [jstate EXCEPT ![wjob[w]] = "panicked"]
    /\ wstate' = [wstate EXCEPT ![w] = "panicked"]
    /\ wjob' = [wjob EXCEPT ![w] = 0]
    /\ UNCHANGED <<job_count, count_lock, queue, chan_open, njobs, mpc, mjob, joinSeen, joinOpen,
                   dropIdx, empty_condvar, notPool>>

\* The wrapper closure: inner_pool.finish_job(), i.e. *job_count.lock() -= 1.
FinishJob(w) ==
    /\ wstate[w] = "finish"
    /\ count_lock = 0
    /\ job_count' = job_count - 1
    /\ jstate' = [jstate EXCEPT ![wjob[w]] = "finished"]
    /\ wjob' = [wjob EXCEPT ![w] = 0]
    /\ wstate' = [wstate EXCEPT ![w] = "recv"]
    /\ UNCHANGED <<count_lock, queue, chan_open, njobs, mpc, mjob, joinSeen, joinOpen, dropIdx, empty_condvar, notPool>>

\* join is called.
JoinCall(c) ==
    /\ mpc[c] = "idle"
    /\ chan_open
    /\ mpc' = [mpc EXCEPT ![c] = "join_lock"]
    /\ joinSeen' = [joinSeen EXCEPT ![c] =
                       {j \in Jobs : jstate[j] \notin {"new", "counted"}}]
    /\ joinOpen' = [joinOpen EXCEPT ![c] =
                       {j \in Jobs : jstate[j] \notin {"new", "counted", "finished"}}]
    /\ UNCHANGED <<job_count, count_lock, queue, chan_open, wstate, wjob, jstate, njobs, mjob,
                   dropIdx, empty_condvar, notPool>>

\* wait_empty: let curr_count = self.job_count.lock().unwrap().
WaitEmptyLock(c) ==
    /\ mpc[c] = "join_lock"
    /\ count_lock = 0
    /\ count_lock' = c
    /\ mpc' = [mpc EXCEPT ![c] = "join_check"]
    /\ UNCHANGED <<job_count, queue, chan_open, wstate, wjob, jstate, njobs, mjob, joinSeen, joinOpen,
                   dropIdx, empty_condvar, notPool>>

\* Mutant: wait_empty returns whatever the count is.
CountIgnored(curr_count) == TRUE

\* wait_empty: curr_count.eq(&0)
CountIsZero(curr_count) == curr_count = 0

\* wait_empty: break when the count is 0, else print and loop; the guard is
\* dropped either way.
WaitEmptyCheck(c) ==
    /\ mpc[c] = "join_check"
    /\ count_lock' = 0
    /\ mpc' = [mpc EXCEPT ![c] = IF CountIsZero(job_count) THEN "joined" ELSE "join_lock"]
    /\ UNCHANGED <<job_count, queue, chan_open, wstate, wjob, jstate, njobs, mjob, joinSeen, joinOpen,
                   dropIdx, empty_condvar, notPool>>

\* join returns.
JoinReturn(c) ==
    /\ mpc[c] = "joined"
    /\ mpc' = [mpc EXCEPT ![c] = "idle"]
    /\ joinSeen' = [joinSeen EXCEPT ![c] = {}]
    /\ joinOpen' = [joinOpen EXCEPT ![c] = {}]
    /\ UNCHANGED <<job_count, count_lock, queue, chan_open, wstate, wjob, jstate, njobs, mjob,
                   dropIdx, empty_condvar, notPool>>

\* Drop for ThreadPool: drop(self.job_sender.take()). The owner drops the
\* pool when nobody else is using it.
DropSender ==
    /\ mpc[Owner] = "idle"
    /\ chan_open
    /\ \A c \in Clients : mpc[c] \in {"idle", "panicked"}
    /\ chan_open' = FALSE
    /\ dropIdx' = 1
    /\ mpc' = [mpc EXCEPT ![Owner] = "drop_join"]
    /\ UNCHANGED <<job_count, count_lock, queue, wstate, wjob, jstate, njobs, mjob, joinSeen,
                   joinOpen, empty_condvar, notPool>>

\* Drop for ThreadPool: thread.join().unwrap() of the next worker.
DropJoinWorker ==
    /\ mpc[Owner] = "drop_join"
    /\ wstate[dropIdx] \in {"exited", "panicked"}
    /\ IF wstate[dropIdx] = "panicked"
       THEN /\ mpc' = [mpc EXCEPT ![Owner] = "panicked"]
            /\ UNCHANGED dropIdx
       ELSE IF dropIdx = NumWorkers
       THEN /\ mpc' = [mpc EXCEPT ![Owner] = "dropped"]
            /\ UNCHANGED dropIdx
       ELSE /\ dropIdx' = dropIdx + 1
            /\ UNCHANGED mpc
    /\ UNCHANGED <<job_count, count_lock, queue, chan_open, wstate, wjob, jstate, njobs, mjob,
                   joinSeen, joinOpen, empty_condvar, notPool>>

WorkerStep(w) == WorkerRecv(w) \/ JobReturn(w) \/ FinishJob(w)

ClientStep(c) ==
    \/ ExecuteStartJob(c)
    \/ ExecuteSend(c)
    \/ JoinCall(c)
    \/ WaitEmptyLock(c)
    \/ WaitEmptyCheck(c)
    \/ JoinReturn(c)

NextPool ==
    \/ \E c \in Clients : ClientStep(c)
    \/ \E w \in Workers : WorkerStep(w) \/ JobPanic(w)
    \/ DropSender
    \/ DropJoinWorker

\* No job panics.
NextPoolNoPanic ==
    \/ \E c \in Clients : ClientStep(c)
    \/ \E w \in Workers : WorkerStep(w)
    \/ DropSender
    \/ DropJoinWorker

\* ================================================================== specifications

RecycleInit ==
    /\ phase = "create"
    /\ old_slots = {}

DropInit ==
    /\ in_drop = FALSE
    /\ dstart = {}
    /\ dpasses = 0

DeleterInit ==
    /\ inner_free = <<>>
    /\ new_inner_free = <<>>

Init == ListInit /\ HazInit /\ CacheInit /\ PoolInit /\ RecycleInit /\ DropInit /\ DeleterInit

NextList ==
    \E t \in LThreads :
        \/ LStart(t)
        \/ LFind(t)
        \/ LAdvanceLock(t)
        \/ LAdvanceRelease(t)
        \/ LInsertWrite(t)
        \/ LRemoveLock(t)
        \/ LRemoveWrite(t)
        \/ LReturn(t)

SpecList == Init /\ [][NextList]_vars

NextListSeq ==
    \E t \in LThreads :
        \/ LStartSeq(t)
        \/ LFind(t)
        \/ LAdvanceLock(t)
        \/ LAdvanceRelease(t)
        \/ LInsertWrite(t)
        \/ LRemoveLock(t)
        \/ LRemoveWrite(t)
        \/ LReturn(t)

SpecListSeq == Init /\ [][NextListSeq]_vars

\* contains, insert, remove and iter by concurrent threads.
NextListIter ==
    \/ NextList
    \/ \E t \in LThreads :
          \/ IterStart(t)
          \/ IterNext(t)
          \/ IterLock(t)
          \/ IterHandoff(t)
          \/ IterDrop(t)

SpecListIter == Init /\ [][NextListIter]_vars

\* contains, insert, remove or iter is called: the thread is about to lock
\* head.
LCall(t) ==
    /\ lpc[t] = "idle"
    /\ \E op \in {"contains", "insert", "remove", "iter"}, k \in Keys \cup {0} :
          /\ (op = "iter") <=> (k = 0)
          /\ lop' = [lop EXCEPT ![t] = op]
          /\ lkey' = [lkey EXCEPT ![t] = k]
    /\ lpc' = [lpc EXCEPT ![t] = "lockHead"]
    /\ UNCHANGED <<slot, ldata, lalloc, lockOwner, lcur, lnode, lnext, lres, labs, absSet, refSet, refRes, notList>>

\* self.head.lock().unwrap() of the operation called.
LHeadLock(t) ==
    /\ lpc[t] = "lockHead"
    /\ CanLock(0)
    /\ lockOwner' = [lockOwner EXCEPT ![0] = t]
    /\ lcur' = [lcur EXCEPT ![t] = 0]
    /\ lpc' = [lpc EXCEPT ![t] = IF lop[t] = "iter" THEN "iterPark" ELSE "find"]
    /\ UNCHANGED <<slot, ldata, lalloc, lop, lkey, lnode, lnext, lres, labs, absSet, refSet, refRes, notList>>

\* The steps of thread t inside an operation, once it holds head; an iterator
\* is consumed to the end (next is called until it returns None).
LRun(t) ==
    \/ LFind(t)
    \/ LAdvanceLock(t)
    \/ LAdvanceRelease(t)
    \/ LInsertWrite(t)
    \/ LRemoveLock(t)
    \/ LRemoveWrite(t)
    \/ LReturn(t)
    \/ IterNext(t)
    \/ IterLock(t)
    \/ IterHandoff(t)

\* contains, insert, remove and fully consumed iterators by concurrent
\* threads, each thread running one operation at a time.
NextListConsume ==
    \E t \in LThreads :
        \/ LCall(t)
        \/ LHeadLock(t)
        \/ LRun(t)

\* Every thread inside an operation keeps being scheduled, and a thread that
\* waits for head gets it when head is unlocked again and again (nothing
\* orders the threads that wait for head, whereas nobody can overtake a
\* thread that waits for a slot inside the list); when a thread calls an
\* operation is up to the thread.
SpecListFair ==
    /\ Init
    /\ [][NextListConsume]_vars
    /\ \A t \in LThreads : WF_vars(LRun(t)) /\ SF_vars(LHeadLock(t))

SpecHaz == Init /\ [][NextHaz]_vars

SpecShields == Init /\ [][NextShields]_vars

SpecRecycle == Init /\ [][NextRecycle]_vars

SpecRetire == Init /\ [][NextRetire]_vars

\* The thread that drops the retired set keeps being scheduled, and so does
\* a reader inside a call of protect; when a reader calls protect or drops its
\* shield is up to the reader.
SpecDrop ==
    /\ Init
    /\ [][NextDrop]_vars
    /\ WF_vars(DropRun)
    /\ \A r \in Readers :
          WF_vars(TryProtectStore(r) \/ TryProtectValidate(r) \/ TryProtectClear(r))

SpecReclaim == Init /\ [][NextReclaim]_vars

SpecCache == Init /\ [][NextCache]_vars

\* Every caller inside a call keeps being scheduled; whether and when a
\* producer returns is up to the producer, and when a thread calls is up to
\* the thread.
SpecCacheFair ==
    /\ Init
    /\ [][NextCacheFair]_vars
    /\ \A t \in Callers : WF_vars(CacheRun(t))

\* Each of the two callers makes one call; the threads are scheduled fairly.
NextCacheBarrier ==
    \E t \in BarrierCallers :
        \/ BarrierCall(t)
        \/ CacheLookup(t)
        \/ CacheWriteLock(t)
        \/ CacheElect(t)
        \/ ProducerStart(t)
        \/ ProducerBarrierArrive(t)
        \/ ProducerBarrierReturn(t)
        \/ CacheWriteLock2(t)
        \/ CacheStore(t)

SpecCacheBarrier ==
    /\ Init
    /\ [][NextCacheBarrier]_vars
    /\ \A t \in BarrierCallers :
          WF_vars(\/ BarrierCall(t) \/ CacheLookup(t) \/ CacheWriteLock(t) \/ CacheElect(t)
                  \/ ProducerStart(t) \/ ProducerBarrierArrive(t) \/ ProducerBarrierReturn(t)
                  \/ CacheWriteLock2(t) \/ CacheStore(t))

SpecPool == Init /\ [][NextPool]_vars

SpecPoolNoPanic == Init /\ [][NextPoolNoPanic]_vars

\* Jobs terminate without panicking and every thread that can take a step is
\* eventually scheduled.
SpecPoolFair ==
    /\ Init
    /\ [][NextPoolNoPanic]_vars
    /\ \A w \in Workers : WF_vars(WorkerStep(w))
    /\ \A c \in Clients : WF_vars(ExecuteSend(c) \/ WaitEmptyLock(c) \/ WaitEmptyCheck(c)
                                    \/ JoinReturn(c))
    /\ WF_vars(DropJoinWorker)

\* ------------------------------------------------------------------ list claims

RECURSIVE Ascending(_)
Ascending(s) ==
    \/ Len(s) <= 1
    \/ (s[1] < s[2] /\ Ascending(Tail(s)))

\* C8: in every reachable state the values reachable from head are strictly
\* ascending (hence without duplicates), whatever the interleaving of insert
\* and remove.
ListOrdered == Ascending(ListSeq)

\* A full list right after an insert at the tail, with another thread's
\* traversal waiting behind the inserter's cursor.
ListOrderedWitness ==
    /\ Len(ListSeq) = MaxKey
    /\ \E t, u \in LThreads :
          /\ lpc[t] = "ret" /\ lop[t] = "insert" /\ lres[t].ok /\ lcur[t] # 0
          /\ lpc[u] = "advance" /\ lnode[u] = lcur[t]

\* C9: in a sequential history every call returns what the reference set
\* returns for it (contains: membership; insert: success, or the rejected key;
\* remove: the removed key, or failure) and leaves the list holding exactly
\* the reference set's contents.
SetSemantics ==
    /\ \A t \in LThreads : lpc[t] = "ret" => lres[t] = refRes /\ ListValues = refSet
    /\ (\A t \in LThreads : lpc[t] = "idle") => ListValues = refSet

\* Removal of the only node has returned its key.
SetSemanticsWitness ==
    \E t \in LThreads :
        /\ lpc[t] = "ret" /\ lop[t] = "remove" /\ lres[t] = Res(TRUE, lkey[t])
        /\ lcur[t] = 0
        /\ refSet = {}

\* C10: linearization points. The list always holds the abstract set, which
\* changes only at the step that writes the cursor's slot; and every call
\* returns what the abstract set operation returns when applied at the call's
\* linearization step (the slot write, or the last find step of a call that
\* does not write), a step inside the call's interval.
Linearizable ==
    /\ ListValues = absSet
    /\ \A t \in LThreads : lpc[t] = "ret" => lres[t] = labs[t]

\* Two calls holding different cursors have both taken effect.
LinearizableWitness ==
    \E t, u \in LThreads :
        /\ t # u
        /\ lpc[t] = "ret" /\ lop[t] = "remove" /\ lres[t].ok
        /\ lpc[u] = "ret" /\ lop[u] = "contains" /\ lres[u].ok

\* The number of links from head to slot s (past the end for a slot that is
\* not in the list).
RECURSIVE PosFrom(_, _, _)
PosFrom(s, cur, fuel) ==
    IF cur = s THEN 0
    ELSE IF slot[cur] = 0 \/ fuel = 0 THEN MaxKey + 2
    ELSE 1 + PosFrom(s, slot[cur], fuel - 1)

Pos(s) == PosFrom(s, 0, MaxKey + 1)

\* The position of key k in the sorted list: the first slot whose node is
\* null or holds a value that is not smaller.
RECURSIVE TargetFrom(_, _, _)
TargetFrom(cur, k, fuel) ==
    IF fuel = 0 \/ slot[cur] = 0 \/ ldata[slot[cur]] >= k THEN cur
    ELSE TargetFrom(slot[cur], k, fuel - 1)

TargetSlot(k) == TargetFrom(0, k, MaxKey + 1)

\* Thread u is in contains, insert or remove and its next step is the lock of
\* slot x.
WaitsFor(u, x) ==
    /\ lop[u] \in {"contains", "insert", "remove"}
    /\ lpc[u] \in {"advance", "removeLock"}
    /\ lnode[u] = x

LockCoupling ==
    /\ [](\A t \in LThreads :
            /\ lpc[t] # "idle" => lockOwner[lcur[t]] = t
            /\ lpc[t] \in {"handoff", "iterHandoff"} => lockOwner[lnode[t]] = t)
    /\ [][\A t \in LThreads : \A s \in Slots :
            (lockOwner[s] = t /\ lockOwner'[s] # t /\ lpc'[t] # "idle") =>
                \E s2 \in Slots \ {s} : lockOwner[s2] = t /\ lockOwner'[s2] = t]_vars
    /\ [][\A n \in Nodes :
            (n \in lalloc /\ n \notin lalloc') =>
                \E u \in LThreads :
                    /\ lpc[u] = "removeWrite" /\ lnode[u] = n
                    /\ \A s \in Slots : (slot[s] = n \/ s = n) => lockOwner[s] \in {0, u}
                    /\ lockOwner[lcur[u]] = u /\ slot[lcur[u]] = n]_vars

\* An iterator holds two guards in its hand-over while a remove of the node
\* it is leaving waits for that node's next slot.
LockCouplingWitness ==
    \E t, u \in LThreads :
        /\ lpc[t] = "iterHandoff" /\ lcur[t] # 0
        /\ lpc[u] = "removeLock" /\ lnode[u] = lcur[t]

\* The slot whose lock is thread t's next step, when its next step is a lock.
WaitSlot(t) == IF lpc[t] = "lockHead" THEN 0 ELSE lnode[t]

\* Thread t's next step is the lock of a slot that another thread holds.
Blocked(t) ==
    /\ lpc[t] \in {"lockHead", "advance", "removeLock", "iterLock"}
    /\ ~CanLock(WaitSlot(t))

ProducerReturns(k) ==
    \A p \in Callers :
        (cpc[p] = "in_f" /\ ckey[p] = k) ~> (cpc[p] = "wlock2" /\ ckey[p] = k)

HazardCoverage ==
    \A c \in ccover :
        /\ c[2] \notin cfreed
        /\ (wpc = "c_done" /\ c[2] \in Range(cstart)) =>
               (c[2] \in Range(retired) /\ c[2] \in heap)

\* A collect has returned that found a retired address covered all along.
HazardCoverageWitness ==
    /\ wpc = "c_done"
    /\ \E c \in ccover : c[2] \in Range(cstart)

\* C2: an address that protect returned stays allocated for as long as the
\* shield keeps it published; and when a collect has taken its snapshot, the
\* snapshot contains every such address that is in the retired buffer
\* (otherwise the validation failed and protect went on to the new address).
ProtectRetireSafe ==
    \A r \in Readers :
        rheld[r] # 0 =>
            /\ rheld[r] \in heap
            /\ (wpc = "c_free" /\ rheld[r] \in Range(retired)) => rheld[r] \in hash_set

\* A reader holds a validated address that has since been unlinked and
\* retired, and the collect that followed is past its free loop.
ProtectRetireSafeWitness ==
    /\ wpc = "c_done"
    /\ \E r \in Readers : rheld[r] # 0 /\ rheld[r] \in Range(retired) /\ rheld[r] # src

\* C11: a retired address that no active slot has published at any time
\* since the running collect loaded the registry's head has been freed, and
\* is out of the retired buffer, when that collect returns.
ReclamationProgress ==
    wpc = "c_done" =>
        \A p \in Range(cstart) \ cseen : p \in cfreed /\ p \notin heap /\ p \notin Range(retired)

\* A collect has returned that freed an unprotected retired address while a
\* shield was protecting another address.
ReclamationProgressWitness ==
    /\ wpc = "c_done"
    /\ \E p \in Range(cstart) \ cseen : p \in cfreed
    /\ \E r \in Readers : rpc[r] = "protected" /\ rheld[r] # 0

\* C12: once the first shields are all dropped, creating no more shields than
\* there were allocates no slot, and every slot acquired is one of the first
\* shields' slots.
SlotRecycling ==
    phase = "recreate" =>
        /\ \A s \in HSlots : s <= hhead => s \in old_slots
        /\ \A r \in RecycleShields : rslot[r] # 0 => rslot[r] \in old_slots

\* As many shields as before have been created again, on at least two slots.
SlotRecyclingWitness ==
    /\ phase = "recreate"
    /\ Cardinality(old_slots) >= 2
    /\ Cardinality({r \in RecycleShields : rpc[r] = "ready"}) = Cardinality(old_slots)

\* C13: no slot is owned by two live shields, and a slot owned by a live
\* shield is active, so that no other acquire_slot can take it before the
\* owner's drop has cleared the flag.
SlotExclusive ==
    \A r \in Shields :
        rslot[r] # 0 =>
            /\ hactive[rslot[r]]
            /\ \A x \in Shields \ {r} : rslot[x] # rslot[r]

\* A live shield's slot is being examined by another holder's
\* try_acquire_inactive, next to a slot that was released.
SlotExclusiveWitness ==
    \E r, x \in Shields :
        /\ rpc[r] = "protected"
        /\ rpc[x] = "scan" /\ rnode[x] = rslot[r]
        /\ \E s \in HSlots : s <= hhead /\ ~hactive[s]

\* C14: the set all_hazards returns while no shield operation is in progress
\* holds, 0 aside, exactly the addresses that live shields protect.
AllHazardsExact ==
    wpc = "c_free" => hash_set \ {0} = {rheld[r] : r \in Shields} \ {0}

\* all_hazards has returned the address of a live shield while another slot,
\* used before, is inactive.
AllHazardsExactWitness ==
    /\ wpc = "c_free"
    /\ \E r \in Shields : rheld[r] # 0 /\ rheld[r] \in hash_set
    /\ \E s \in HSlots : s <= hhead /\ ~hactive[s]

\* C15: retire appends to the buffer and runs collect, inside the call, exactly
\* when the buffer then holds THRESHOLD entries: the buffer is shorter than
\* THRESHOLD whenever no retire is running, nothing that was retired is freed
\* before the buffer is full, and when the collect of the THRESHOLD-th retire
\* is done every entry, none of them protected, has been freed.
RetireThreshold ==
    /\ wpc = "idle" => Len(retired) < THRESHOLD
    /\ wpc \in {"collect", "c_active", "c_hazard", "c_free"} => Len(retired) = THRESHOLD
    /\ wpc \in {"idle", "retire", "collect", "c_active", "c_hazard"} =>
           heap = {src} \cup Range(retired) \cup ({wold} \ {0})
    /\ wpc = "c_done" =>
           /\ Len(cstart) = THRESHOLD
           /\ retired = <<>>
           /\ Range(cstart) \cap heap = {}

\* The collect of the THRESHOLD-th retire has freed every entry while a
\* shield was protecting the object src points to.
RetireThresholdWitness ==
    /\ wpc = "c_done"
    /\ Len(cstart) = THRESHOLD
    /\ cfreed = Range(cstart)
    /\ \E r \in Readers : rpc[r] = "protected" /\ rheld[r] = src

\* C22: a slot whose active flag is false holds hazard word 0; a hazard word
\* is written only by the shield that owns the slot, while the slot is
\* active; and a slot that is acquired, new or recycled, starts with hazard
\* word 0.
InactiveSlotClear ==
    /\ [](\A s \in HSlots : ~hactive[s] => hhazard[s] = 0)
    /\ [][\A s \in HSlots :
            /\ hhazard'[s] # hhazard[s] =>
                   \E r \in Shields : rslot[r] = s /\ rpc'[r] # rpc[r] /\ hactive[s] /\ hactive'[s]
            /\ (~hactive[s] /\ hactive'[s]) => hhazard'[s] = 0]_vars

\* A shield is between the two stores of its drop (hazard word cleared, slot
\* still active) while another holder is about to recycle a slot released
\* earlier.
InactiveSlotClearWitness ==
    \E r, x \in Shields :
        /\ rpc[r] = "drop" /\ hactive[rslot[r]] /\ hhazard[rslot[r]] = 0
        /\ rpc[x] = "scan" /\ rnode[x] # 0 /\ ~hactive[rnode[x]]

\* A shield protects address p: protect returned p and the shield's slot has
\* published it ever since.
Protected(p) == \E r \in Readers : rheld[r] = p

\* C21: the drop of a RetiredSet calls collect again whenever the buffer is
\* not empty and returns only with the buffer empty and every address that
\* was retired freed; if from some time on no shield protects a retired
\* address (every protection of one has been dropped or re-pointed) the drop
\* returns; and if a shield protects a retired address for ever the drop
\* never returns.
DropDrains ==
    /\ [][wpc = "drop_check" /\ wpc' # "drop_check" =>
             IF retired = <<>> THEN wpc' = "dropped" ELSE wpc' = "collect"]_vars
    /\ [](wpc = "dropped" => retired = <<>> /\ dstart \cap heap = {})
    /\ (<>[](\A p \in Range(retired) : ~Protected(p))) => (in_drop ~> wpc = "dropped")
    /\ \A p \in Addrs :
          []((in_drop /\ p \in Range(retired)) => ([]Protected(p) => []~(wpc = "dropped")))

\* A drop has returned after a pass that kept a protected address.
DropDrainsWitness ==
    /\ wpc = "dropped"
    /\ dpasses = 2
    /\ dstart # {}

\* The entries of a retired buffer are distinct, allocated, and each paired
\* with the deleter of its own object.
EntriesSound(ptrs, frees) ==
    /\ Len(frees) = Len(ptrs)
    /\ \A i \in 1..Len(ptrs) :
          /\ ptrs[i] \in heap
          /\ frees[i] = Deleter(ptrs[i])
          /\ \A j \in 1..Len(ptrs) : j # i => ptrs[j] # ptrs[i]

\* C24: whatever the sequence of retire, collect and drop, collect frees an
\* entry only while its object is allocated (so no object is freed twice),
\* with the object's own deleter, and does not push it to the new buffer;
\* the entries still to be visited and the entries kept are distinct,
\* allocated and paired with their own deleter; and when collect is done the
\* buffer holds, in order and once each, exactly the entries it did not free.
NoDoubleFree ==
    /\ [][(wpc = "c_free" /\ ci' = ci + 1 /\ Frees(retired[ci + 1], hash_set)) =>
             /\ retired[ci + 1] \in heap
             /\ retired[ci + 1] \notin heap'
             /\ inner_free[ci + 1] = Deleter(retired[ci + 1])
             /\ retired[ci + 1] \notin Range(new_inner')]_vars
    /\ [](IF wpc = "c_free"
          THEN EntriesSound(SubSeq(retired, ci + 1, Len(retired)) \o new_inner,
                            SubSeq(inner_free, ci + 1, Len(inner_free)) \o new_inner_free)
          ELSE EntriesSound(retired, inner_free))
    /\ [](wpc = "c_done" =>
             /\ retired = SelectSeq(cstart, LAMBDA p : p \notin cfreed)
             /\ cfreed \cap heap = {})

\* An entry that the first collect pass of the drop kept is freed by a later
\* pass, while a shield protects the object that replaced it.
NoDoubleFreeWitness ==
    /\ in_drop
    /\ dpasses = 2
    /\ wpc = "c_done"
    /\ cfreed # {}
    /\ \E r \in Readers : rheld[r] = src

\* ------------------------------------------------------------------ cache claims

\* C3: for every key at most one caller's producer is ever invoked, and a call
\* that has returned returns the value that invocation produced.
SingleFlight ==
    /\ \A k \in CacheKeys : Cardinality(finvoked[k]) <= 1
    /\ \A t \in Callers :
          cpc[t] = "done" =>
              \E p \in finvoked[ckey[t]] : cresult[t] = FResult(p, ckey[t])

\* Two concurrent calls with the same key have both returned, one of them
\* the producing one.
SingleFlightWitness ==
    \E t, u \in Callers :
        /\ t # u
        /\ cpc[t] = "done" /\ cpc[u] = "done"
        /\ ckey[t] = ckey[u]
        /\ finvoked[ckey[t]] = {t}

\* C4: with distinct keys, neither in the cache, and producers that wait for
\* each other on a barrier of size two, both producers get started, the
\* barrier opens and both calls return; neither caller holds a lock of the
\* map while its producer runs.
CacheIndependence ==
    /\ <>(\A t \in BarrierCallers : cpc[t] = "in_f" /\ t \in barrier)
    /\ <>(\A t \in BarrierCallers : cpc[t] = "done" /\ cresult[t] = FResult(t, ckey[t]))

\* f1 and f2 are both running, blocked on the barrier or about to be.
CacheIndependenceWitness ==
    /\ \A t \in BarrierCallers : cpc[t] = "in_f"
    /\ \E t, u \in BarrierCallers : ckey[t] # ckey[u]
    /\ rw_writer = 0 /\ rw_readers = {}

\* C16: while the producer f of a caller is executing, that caller holds
\* neither the write lock nor a read lock of the map.
NoLockAcrossProducer ==
    \A t \in Callers :
        cpc[t] = "in_f" => rw_writer # t /\ t \notin rw_readers

\* A producer is running while another caller holds the write lock.
NoLockAcrossProducerWitness ==
    \E t, u \in Callers :
        /\ cpc[t] = "in_f"
        /\ u # t /\ rw_writer = u

\* C18: a caller that has found its key pending takes no lock of the map
\* again until the producer has stored the value (it waits on the entry's
\* signal instead of polling the map).
CacheWaitsOnSignal ==
    [][\A t \in Callers :
          (cpc[t] = "poll" /\ cpc'[t] = "poll_check") => cmap[ckey[t]].st = "ready"]_vars

\* ------------------------------------------------------------------ pool claims

\* C5: when join returns, every job whose execute had returned before the
\* join began has run to completion, its wrapper's finish_job included.
PoolDrain ==
    \A c \in Clients :
        mpc[c] = "joined" => \A j \in joinSeen[c] : jstate[j] = "finished"

\* A join that began with jobs outstanding has returned.
PoolDrainWitness ==
    \E c \in Clients :
        /\ mpc[c] = "joined"
        /\ joinOpen[c] # {}

\* C6: the job counter counts only the jobs that are between start_job and the
\* end of their wrapper, whether the wrapper ended by returning or by
\* unwinding from a panic (so that a later join can see zero).
PanicStillDecrements ==
    job_count = Cardinality({j \in Jobs : jstate[j] \in {"counted", "queued", "running", "returned"}})

\* C23: when no job panics the counter is, in every state, the number of
\* jobs an execute has counted and not yet sent, plus the jobs in the channel,
\* plus the jobs a worker is running (closure and finish_job included); it is
\* never negative; it goes up only in execute, before the job is sent, and
\* goes down only by one, in the wrapper of a job whose closure has returned.
JobAccounting ==
    /\ [](/\ job_count = Cardinality({c \in Clients : mpc[c] = "send"}) + Len(queue)
                            + Cardinality({w \in Workers : wstate[w] \in {"job", "finish"}})
          /\ job_count >= 0)
    /\ [][job_count' > job_count =>
             \E c \in Clients :
                 /\ mpc[c] = "idle" /\ mpc'[c] = "send"
                 /\ job_count' = job_count + 1
                 /\ mjob'[c] \notin Range(queue') /\ jstate'[mjob'[c]] = "counted"]_vars
    /\ [][job_count' < job_count =>
             \E w \in Workers :
                 /\ wstate[w] = "finish" /\ jstate[wjob[w]] = "returned"
                 /\ jstate'[wjob[w]] = "finished"
                 /\ job_count' = job_count - 1]_vars

\* One job is counted and not yet sent while the closure of another has
\* returned and its wrapper has not yet called finish_job.
JobAccountingWitness ==
    /\ \E c \in Clients : mpc[c] = "send"
    /\ \E w \in Workers : wstate[w] = "finish"
    /\ job_count >= 2

\* C17: the wrapper signals empty_condvar when its decrement brings the
\* counter to zero, so that no thread stays blocked in its wait; and a join
\* that has found the counter non-zero blocks in empty_condvar's wait instead
\* of going back to lock the counter's mutex.
JoinWaitsOnSignal ==
    [][/\ (job_count # 0 /\ job_count' = 0) => empty_condvar' = {}
       /\ \A c \in Clients :
             (mpc[c] = "join_check" /\ mpc'[c] # "join_check" /\ ~CountIsZero(job_count)) =>
                 (c \in empty_condvar' /\ mpc'[c] # "join_lock")]_vars

\* C7: when no job panics, a drop of the pool that has closed the channel
\* goes on to join every worker and returns; when it has returned every
\* worker has exited and every job passed to execute has finished; and a
\* worker exits only when the channel is closed and empty.
PoolShutdown ==
    /\ (mpc[Owner] = "drop_join") ~> (mpc[Owner] = "dropped")
    /\ [](mpc[Owner] = "dropped" =>
              /\ \A w \in Workers : wstate[w] = "exited"
              /\ \A j \in Jobs : jstate[j] \in {"new", "finished"})
    /\ [][\A w \in Workers :
              (wstate[w] # "exited" /\ wstate'[w] = "exited") => (~chan_open /\ queue = <<>>)]_vars

\* The pool is being dropped: one worker has exited while another still runs
\* a job submitted before the drop.
PoolShutdownWitness ==
    /\ mpc[Owner] = "drop_join"
    /\ \E w, x \in Workers : wstate[w] = "exited" /\ wstate[x] = "job"

====
